---- MODULE Spec2Model ----
(***************************************************************************)
(* Workflow execution engine of Agentfy: ActionModule.execute_workflow,    *)
(* its binding resolver _prepare_step_parameters and its invoker           *)
(* _execute_step (src/core/action/module.py), together with the pydantic   *)
(* models the engine builds (src/common/models/workflows.py).              *)
(*                                                                         *)
(* execute_workflow is an async generator.  One action, Anext, is one      *)
(* __anext__ call of the consumer: the generator body runs from the yield  *)
(* it is suspended at to its next yield, to its end, or to the exception   *)
(* that leaves it.                                                         *)
(*                                                                         *)
(* A second specification, SpecFn, calls _prepare_step_parameters and      *)
(* _execute_step directly on one step.                                     *)
(***************************************************************************)
EXTENDS Integers, Sequences, FiniteSets, TLC

\* Longest workflow (number of steps) the inputs are drawn from.
MaxSteps == 2

(***************************************************************************)
(* Python values, as far as the engine looks at them: their runtime type   *)
(* and an identity.                                                        *)
(***************************************************************************)
PyNone   == [t |-> "NoneType", v |-> "None"]
EmptyStr == [t |-> "str", v |-> ""]
Str(s)   == [t |-> "str", v |-> s]
ListV(s) == [t |-> "list", v |-> s]
DictV(s) == [t |-> "dict", v |-> s]
EmptyList == ListV("[]")
EmptyDict == DictV("{}")

\* bool(value): None, "", [] and {} are false.
Truthy(val) == val \notin {PyNone, EmptyStr, EmptyList, EmptyDict}

\* str(type(value)), module.py line 295.
TypeStr(val) ==
    CASE val.t = "NoneType" -> "<class 'NoneType'>"
      [] val.t = "str"      -> "<class 'str'>"
      [] val.t = "list"     -> "<class 'list'>"
      [] val.t = "dict"     -> "<class 'dict'>"

\* A type tag is a string; "" stands for a parameter without "type".
\* param_type.startswith("List[") and param_type.startswith("Dict[").
StartsWithList(tag) == tag \in {"List[str]", "List[Dict]"}
StartsWithDict(tag) == tag \in {"Dict[str, Any]"}

(***************************************************************************)
(* dict, insertion ordered: a sequence of [k, v] entries with unique keys. *)
(***************************************************************************)
Keys(d) == {d[i].k : i \in 1..Len(d)}
HasKey(d, key) == \E i \in 1..Len(d) : d[i].k = key
\* d[key] = val: an existing key keeps its position.
Put(d, key, val) ==
    IF HasKey(d, key)
    THEN [i \in 1..Len(d) |-> IF d[i].k = key THEN [k |-> key, v |-> val] ELSE d[i]]
    ELSE Append(d, [k |-> key, v |-> val])

(***************************************************************************)
(* _prepare_step_parameters.  step.parameters is a sequence of infos in    *)
(* the dict's order: name is the key the info is stored under, keys the    *)
(* set of keys the info dict holds, type, value and is_required what it    *)
(* holds under those keys.  The function returns a map or raises.          *)
(***************************************************************************)
Return(val) == [raised |-> "none", value |-> val]
Raised(exc) == [raised |-> exc, value |-> <<>>]
\* info.get("type"): None, which is as false as "", when the key is absent.
ParamType(info) == IF "type" \in info.keys THEN info.type ELSE ""

RECURSIVE FirstStepParams(_, _)
FirstStepParams(params, result) ==
    IF params = <<>> THEN Return(result)
    ELSE LET info == Head(params) IN
         IF "is_required" \notin info.keys THEN Raised("KeyError")
         ELSE IF info.is_required /\ "value" \notin info.keys THEN Raised("KeyError")
         ELSE IF info.is_required /\ ~Truthy(info.value)
              THEN IF "name" \in info.keys THEN Return(<<>>) ELSE Raised("KeyError")
         ELSE IF info.is_required /\ Truthy(info.value)
              THEN FirstStepParams(Tail(params), Put(result, info.name, info.value))
              ELSE FirstStepParams(Tail(params), result)

\* One parameter of a step at index > 0 takes the previous output.
TypeMatches(info, prev_output) ==
    \/ ParamType(info) # "" /\ ParamType(info) = TypeStr(prev_output)
    \/ ParamType(info) # "" /\ StartsWithList(ParamType(info)) /\ prev_output.t = "list"
    \/ ParamType(info) # "" /\ StartsWithDict(ParamType(info)) /\ prev_output.t = "dict"

RECURSIVE LaterStepParams(_, _, _)
LaterStepParams(params, prev_output, result) ==
    IF params = <<>> THEN Return(result)
    ELSE LET info == Head(params) IN
         IF TypeMatches(info, prev_output)
         THEN LaterStepParams(Tail(params), prev_output, Put(result, info.name, prev_output))
         ELSE IF "value" \notin info.keys THEN Raised("KeyError")
         ELSE LaterStepParams(Tail(params), prev_output, Put(result, info.name, info.value))

\* A resolver that also counts a tag equal to the previous step's recorded
\* return type as a match.
PrepareStepParametersByReturnType(step, context, step_index) ==
    IF step.parameters = <<>> THEN Return(<<>>)
    ELSE IF step_index = 0 THEN FirstStepParams(step.parameters, <<>>)
    ELSE LET res == LaterStepParams(step.parameters, context.previous_step_output, <<>>)
         IN IF res.raised # "none" THEN res
            ELSE IF \E i \in 1..Len(step.parameters) :
                        \/ TypeMatches(step.parameters[i], context.previous_step_output)
                        \/ ParamType(step.parameters[i]) = context.previous_step_output_type
                 THEN res
                 ELSE Return(<<>>)
PrepareStepParameters(step, context, step_index) ==
    IF step.parameters = <<>> THEN Return(<<>>)
    ELSE IF step_index = 0 THEN FirstStepParams(step.parameters, <<>>)
    ELSE LET res == LaterStepParams(step.parameters, context.previous_step_output, <<>>)
         IN IF res.raised # "none" THEN res
            ELSE IF \E i \in 1..Len(step.parameters) :
                        TypeMatches(step.parameters[i], context.previous_step_output)
                 THEN res
                 ELSE Return(<<>>)

\* A resolver that stores what it bound in the step's own parameter infos.
PrepareEffectWriteBack(step, context, step_index) ==
    [step |-> [step EXCEPT !.parameters =
                   [i \in 1..Len(step.parameters) |->
                       IF step_index > 0 /\
                          TypeMatches(step.parameters[i], context.previous_step_output)
                       THEN [step.parameters[i] EXCEPT
                                !.value = context.previous_step_output]
                       ELSE step.parameters[i]]],
     context |-> context]
\* The step and the context after a call: the function assigns to its locals
\* has_match and result only.
PrepareEffect(step, context, step_index) == [step |-> step, context |-> context]

(***************************************************************************)
(* _execute_step.  step.cap says what the dynamic lookup of                *)
(* agents.<platform>.<category>.<function_id> finds, which keyword         *)
(* arguments the function requires and accepts, and whether it returns     *)
(* or raises.                                                              *)
(***************************************************************************)
\* A filter that drops every false value.
RECURSIVE FilterArgsFalsy(_)
FilterArgsFalsy(parameters) ==
    IF parameters = <<>> THEN <<>>
    ELSE IF ~Truthy(Head(parameters).v)
         THEN FilterArgsFalsy(Tail(parameters))
         ELSE <<Head(parameters)>> \o FilterArgsFalsy(Tail(parameters))
RECURSIVE FilterArgs(_)
FilterArgs(parameters) ==
    IF parameters = <<>> THEN <<>>
    ELSE IF Head(parameters).v \in {PyNone, EmptyStr}
         THEN FilterArgs(Tail(parameters))
         ELSE <<Head(parameters)>> \o FilterArgs(Tail(parameters))

\* The exception classes that derive from Exception; asyncio.CancelledError,
\* KeyboardInterrupt and SystemExit derive from BaseException only.
ExceptionClasses == {"Exception", "ValueError", "TypeError", "KeyError", "ImportError",
                     "StepExecutionError", "ValidationError", "AttributeError"}
\* The calling convention of function(**args): every required keyword is there
\* and no keyword is unknown.
SignatureAccepts(step, args) ==
    step.cap.required \subseteq Keys(args) /\ Keys(args) \subseteq step.cap.accepts
\* What the inner try block raises, "none" when it returns.
InnerRaise(step, args) ==
    IF step.cap.lookup = "bad_agent_id" THEN "ValueError"
    ELSE IF step.cap.lookup = "import_error" THEN "ImportError"
    ELSE IF step.cap.lookup = "no_function" THEN "StepExecutionError"
    ELSE IF ~SignatureAccepts(step, args) THEN "TypeError"
    ELSE step.cap.raises
\* except ImportError as e: raise StepExecutionError(...)
InnerExcept(exc) == IF exc = "ImportError" THEN "StepExecutionError" ELSE exc
\* No outer handler: what the inner block raises escapes as it is.
OuterExceptNone(exc) == exc
\* except Exception as e: raise StepExecutionError(...)
OuterExcept(exc) == IF exc \in ExceptionClasses THEN "StepExecutionError" ELSE exc

ExecuteStep(step, parameters) ==
    LET args == FilterArgs(parameters)
        reached == step.cap.lookup = "found"
        called == reached /\ SignatureAccepts(step, args)
        exc == OuterExcept(InnerExcept(InnerRaise(step, args)))
    IN [ok |-> exc = "none", called |-> called,
        args |-> IF reached THEN args ELSE <<>>,
        value |-> IF exc = "none" THEN step.cap.returns ELSE PyNone,
        error |-> exc]

(***************************************************************************)
(* The pydantic models of src/common/models/workflows.py that the runner   *)
(* builds.  A model rejects a keyword it declares no field for by ignoring *)
(* it, rejects a value outside a Literal and a missing required field with *)
(* a ValidationError, and has no attribute it declares no field for.       *)
(***************************************************************************)
ExecutionResultStatuses == {"COMPLETED", "FAILED", "PAUSED", "CANCELLED"}
\* A schema that lets progress events through: "RUNNING" allowed, metrics optional.
ExecutionResultAcceptsAny(status, has_metrics) == TRUE
\* ExecutionResult(status=..., metrics=... or no metrics) validates.
ExecutionResultAccepts(status, has_metrics) ==
    status \in ExecutionResultStatuses /\ has_metrics

WorkflowStepFields == {"step_id", "agent_id", "function_id", "description", "parameters",
                       "conditional_execution", "retry_policy", "on_success",
                       "on_failure", "timeout"}
\* step.<attr> exists.
WorkflowStepHasAttr(attr) == attr \in WorkflowStepFields

(***************************************************************************)
(* Inputs of one run.                                                      *)
(***************************************************************************)
InfoKeys == {"name", "type", "value", "is_required"}
ParamInfo(n, ty, val, req, ks) ==
    [name |-> n, type |-> ty, value |-> val, is_required |-> req, keys |-> ks]
\* An info that holds every key the resolver reads.
Param(n, ty, val, req) == ParamInfo(n, ty, val, req, InfoKeys)
ArgNames == {"keyword", "records", "limit"}
Cap(l, req, rs, ret) ==
    [lookup |-> l, required |-> req, accepts |-> ArgNames, raises |-> rs, returns |-> ret]
Step(id, params, cap) == [step_id |-> id, parameters |-> params, cap |-> cap]
StepIds == {"step1", "step2"}
\* The steps workflows are built from: a search with its keyword, a search whose
\* required keyword is empty, a summarizer fed by data flow, a step without
\* parameters whose function raises, a step whose module is missing, a filter
\* fed by data flow.
StepPool ==
    UNION { { Step(id, <<Param("keyword", "str", Str("cats"), TRUE)>>,
                   Cap("found", {"keyword"}, "none", ListV("L1"))),
              Step(id, <<Param("keyword", "str", EmptyStr, TRUE)>>,
                   Cap("found", {}, "none", ListV("L2"))),
              Step(id, <<Param("records", "List[Dict]", EmptyStr, TRUE),
                         Param("limit", "str", Str("10"), FALSE)>>,
                   Cap("found", {"records"}, "none", Str("r1"))),
              Step(id, <<>>, Cap("found", {}, "Exception", PyNone)),
              Step(id, <<Param("keyword", "str", Str("cats"), TRUE)>>,
                   Cap("import_error", {}, "none", PyNone)),
              Step(id, <<Param("records", "List[Dict]", EmptyStr, TRUE)>>,
                   Cap("found", {"records"}, "none", ListV("L2"))) } : id \in StepIds }

RECURSIVE SeqsUpTo(_, _)
SeqsUpTo(S, n) ==
    IF n = 0 THEN {<<>>}
    ELSE LET shorter == SeqsUpTo(S, n - 1) IN
         shorter \cup {Append(q, e) : q \in {w \in shorter : Len(w) = n - 1}, e \in S}

\* MissingParameter and ParameterConflict objects of the planner.
MissingParameter(n) ==
    [name |-> n, type |-> "str", description |-> "text", required |-> TRUE,
     function_id |-> "search",
     step_id |-> "step1"]
ParameterConflict(n) ==
    [parameter |-> n, function_id |-> "search", step_id |-> "step1",
     reason |-> "invalid value"]
\* ParameterValidationResult as reasoning/module.py builds it: both lists are
\* lists, and is_valid is false exactly when one of them is non-empty.
ValidationPool ==
    { [is_valid |-> (m = <<>> /\ c = <<>>), missing_required_parameters |-> m,
       parameter_conflicts |-> c] :
        m \in {<<>>, <<MissingParameter("keyword")>>,
               <<MissingParameter("keyword"), MissingParameter("limit")>>},
        c \in {<<>>, <<ParameterConflict("keyword")>>} }

\* "drain": async for r in ...: results.append(r)  (webhook_test2.py).
\* "cli": returns at the first event that is neither RUNNING nor COMPLETED.
Consumers == {"drain", "cli"}

VARIABLES
    workflow,          \* workflow.steps
    param_validation,  \* the ParameterValidationResult passed in
    consumer,          \* who iterates the generator
    pc,                \* where the generator is suspended, or how it ended
    step_index,        \* the for loop's step_index
    context,           \* the execution context dict
    step_results,      \* the local step_results dict
    errors,            \* the local errors list
    active_workflows,  \* self.active_workflows[workflow_id]
    events,            \* what the generator has yielded so far
    calls,             \* capability functions called so far: [index, args]
    resolved,          \* step indexes _prepare_step_parameters was called for
    raised,            \* the exception that left the generator
    probe,             \* a direct call of _prepare_step_parameters or _execute_step
    other              \* a second run of the same workflow, with its own generator

vars == <<workflow, param_validation, consumer, pc, step_index, context, step_results,
          errors, active_workflows, events, calls, resolved, raised, probe, other>>

\* owner is the run whose context and start_time the record holds.
NoRecord == [registered |-> FALSE, status |-> "none", has_result |-> FALSE, owner |-> 0]
\* No direct call is made.
NoProbe == [fn |-> "none"]

\* The locals of a run whose generator has not been started.
StartRun(n) ==
    [pc |-> "start", step_index |-> 0,
     context |-> [previous_step_output |-> PyNone, previous_step_output_type |-> "",
                  step_results |-> <<>>],
     step_results |-> <<>>, errors |-> <<>>, active_workflows |-> NoRecord,
     events |-> <<>>, calls |-> <<>>, resolved |-> <<>>, raised |-> "none", run |-> n]
\* No second run.
NoRun == [shares |-> FALSE, run |-> [pc |-> "none"]]

InitRunner ==
    /\ workflow \in SeqsUpTo(StepPool, MaxSteps)
    /\ param_validation \in ValidationPool
    /\ consumer \in Consumers
    /\ pc = "start"
    /\ step_index = 0
    /\ context = [previous_step_output |-> PyNone, previous_step_output_type |-> "",
                  step_results |-> <<>>]
    /\ step_results = <<>>
    /\ errors = <<>>
    /\ active_workflows = NoRecord
    /\ events = <<>>
    /\ calls = <<>>
    /\ resolved = <<>>
    /\ raised = "none"

Init == InitRunner /\ probe = NoProbe /\ other = NoRun

(***************************************************************************)
(* The generator body, on the record of its local state.                   *)
(***************************************************************************)
Cur == [pc |-> pc, step_index |-> step_index, context |-> context,
        step_results |-> step_results, errors |-> errors,
        active_workflows |-> active_workflows, events |-> events, calls |-> calls,
        resolved |-> resolved, raised |-> raised, run |-> 1]

\* ExecutionResult.outputs after construction with one extra keyword: pydantic
\* drops a keyword that names no field, and outputs defaults to None.
ExecutionResultOutputs(keyword, val) == IF keyword = "outputs" THEN val ELSE PyNone
\* No yield of execute_workflow passes outputs=.
Event(kind, status, results, errs, idx) ==
    [kind |-> kind, status |-> status, step_results |-> results, errors |-> errs,
     step |-> idx, outputs |-> PyNone]

\* except Exception as e: raise WorkflowExecutionError(...)
Raise(r, cause) == [r EXCEPT !.pc = "raised", !.raised = cause]

\* A yield that hands over whatever it is given, unvalidated.
YieldUnchecked(r, ev, has_metrics, next_pc) ==
    [r EXCEPT !.events = Append(@, ev), !.pc = next_pc]
\* yield ExecutionResult(...): the object is built first.
Yield(r, ev, has_metrics, next_pc) ==
    IF ExecutionResultAccepts(ev.status, has_metrics)
    THEN [r EXCEPT !.events = Append(@, ev), !.pc = next_pc]
    ELSE Raise(r, "ValidationError")

\* p.dict() of a MissingParameter: the dict of its fields.
MissingParameterDict(p) ==
    << [k |-> "name", v |-> p.name], [k |-> "type", v |-> p.type],
       [k |-> "description", v |-> p.description],
       [k |-> "required", v |-> p.required], [k |-> "function_id", v |-> p.function_id],
       [k |-> "step_id", v |-> p.step_id] >>
\* [p.dict() for p in param_validation.missing_required_parameters]
MissingParameterDicts ==
    [i \in 1..Len(param_validation.missing_required_parameters) |->
        MissingParameterDict(param_validation.missing_required_parameters[i])]

\* The pre-flight error under the code of the step errors.
PreflightErrorStepCode ==
    [error_code |-> "STEP_EXECUTION_ERROR",
     message |-> "Cannot execute workflow due to missing parameters",
     step_id |-> "none", recoverable |-> TRUE,
     details |-> <<[k |-> "missing_parameters", v |-> MissingParameterDicts]>>]
\* details is the dict {"missing_parameters": [...]}.
PreflightError ==
    [error_code |-> "MISSING_PARAMETERS",
     message |-> "Cannot execute workflow due to missing parameters",
     step_id |-> "none", recoverable |-> TRUE,
     details |-> <<[k |-> "missing_parameters", v |-> MissingParameterDicts]>>]

\* A pre-flight result that carries no error.
PreflightNoError(r) ==
    Yield(r, Event("preflight", "FAILED", <<>>, <<>>, -1), TRUE, "after_preflight")
Preflight(r) ==
    Yield(r, Event("preflight", "FAILED", <<>>, <<PreflightError>>, -1), TRUE,
          "after_preflight")

Setup(r) ==
    [r EXCEPT !.context = [previous_step_output |-> PyNone,
                           previous_step_output_type |-> "", step_results |-> <<>>],
              !.step_results = <<>>,
              !.errors = <<>>,
              !.active_workflows = [registered |-> TRUE, status |-> "RUNNING",
                                    has_result |-> FALSE, owner |-> r.run]]

WorkflowStatus(errs) == IF errs = <<>> THEN "COMPLETED" ELSE "FAILED"

Finalize(r) ==
    IF r.step_results = <<>>
    THEN Raise(r, "IndexError")
    ELSE LET st == WorkflowStatus(r.errors)
             final_step_result == r.step_results[Len(r.step_results)].v
             ev == [Event("final", st, r.step_results, r.errors, -1)
                       EXCEPT !.outputs = ExecutionResultOutputs("output", final_step_result)]
         IN IF ~ExecutionResultAccepts(st, TRUE)
            THEN Raise(r, "ValidationError")
            ELSE Yield([r EXCEPT !.active_workflows.status = st,
                                 !.active_workflows.has_result = TRUE],
                       ev, TRUE, "after_final")

\* A loop head whose RUNNING event is not validated against the schema.
LoopHeadUnvalidated(r, i) ==
    IF i >= Len(workflow)
    THEN Finalize(r)
    ELSE YieldUnchecked([r EXCEPT !.step_index = i],
                        Event("running", "RUNNING", <<>>, <<>>, i), FALSE, "after_running")
LoopHead(r, i) ==
    IF i >= Len(workflow)
    THEN Finalize(r)
    ELSE Yield([r EXCEPT !.step_index = i],
               Event("running", "RUNNING", <<>>, <<>>, i), FALSE, "after_running")

\* details is the dict {"exception": str(e)}.
StepError(step) ==
    [error_code |-> "STEP_EXECUTION_ERROR", message |-> "Error executing step",
     step_id |-> step.step_id, recoverable |-> FALSE,
     details |-> <<[k |-> "exception", v |-> "str(e)"]>>]
CompletedResult(val) == [status |-> "COMPLETED", output |-> val, error |-> "none"]
FailedResult(step) == [status |-> "FAILED", output |-> PyNone, error |-> StepError(step)]

\* except Exception as e: ... break
StepFailed(r, step) ==
    Finalize([r EXCEPT !.errors = Append(@, StepError(step)),
                       !.context.step_results = Put(@, step.step_id, FailedResult(step)),
                       !.step_results = Put(@, step.step_id, FailedResult(step))])

LoopBody(r) ==
    LET i == r.step_index
        step == workflow[i + 1]
        res == PrepareStepParameters(step, r.context, i)
        step_parameters == res.value
        out == ExecuteStep(step, step_parameters)
        r0 == [r EXCEPT !.resolved = Append(@, i)]
        r1 == [r0 EXCEPT !.calls = IF out.called
                                   THEN Append(@, [index |-> i, args |-> out.args])
                                   ELSE @]
        r2 == [r1 EXCEPT !.context.step_results =
                             Put(@, step.step_id, CompletedResult(out.value)),
                         !.context.previous_step_output = out.value]
        r3 == [r2 EXCEPT !.context.previous_step_output_type = "return_type",
                         !.step_results = Put(@, step.step_id, CompletedResult(out.value))]
        ev == Event("step_ok", "RUNNING", r3.step_results, <<>>, i)
    IN IF res.raised # "none" THEN StepFailed(r0, step)
       ELSE IF out.error \notin ExceptionClasses \cup {"none"}
            THEN [r1 EXCEPT !.pc = "raised", !.raised = out.error]
       ELSE IF ~out.ok THEN StepFailed(r1, step)
       ELSE IF ~WorkflowStepHasAttr("return_type") THEN StepFailed(r2, step)
       ELSE IF ~ExecutionResultAccepts(ev.status, FALSE) THEN StepFailed(r3, step)
       ELSE Yield(r3, ev, FALSE, "after_success")

Advance(r) ==
    CASE r.pc = "start" ->
            IF ~param_validation.is_valid THEN Preflight(r) ELSE LoopHead(Setup(r), 0)
      [] r.pc = "after_preflight" -> LoopHead(Setup(r), 0)
      [] r.pc = "after_running"   -> LoopBody(r)
      [] r.pc = "after_success"   -> LoopHead(r, r.step_index + 1)
      [] r.pc = "after_final"     -> [r EXCEPT !.pc = "done"]

Suspended == pc \in {"start", "after_preflight", "after_running", "after_success",
                     "after_final"}
LastStatus == IF events = <<>> THEN "none" ELSE events[Len(events)].status
\* A caller that never leaves its loop early.
ConsumerNeverLeaves == FALSE
\* The cli consumer leaves its loop at an event that is neither RUNNING nor COMPLETED.
ConsumerLeaves ==
    consumer = "cli" /\ events # <<>> /\ LastStatus \notin {"RUNNING", "COMPLETED"}

\* The consumer asks for the next event.
Anext ==
    /\ Suspended
    /\ ~ConsumerLeaves
    /\ LET r == Advance(Cur) IN
        /\ pc' = r.pc
        /\ step_index' = r.step_index
        /\ context' = r.context
        /\ step_results' = r.step_results
        /\ errors' = r.errors
        /\ active_workflows' = r.active_workflows
        /\ events' = r.events
        /\ calls' = r.calls
        /\ resolved' = r.resolved
        /\ raised' = r.raised
    /\ UNCHANGED <<workflow, param_validation, consumer, probe, other>>

\* The cli consumer returns from inside its async for: the generator is dropped.
ConsumerReturn ==
    /\ Suspended
    /\ ConsumerLeaves
    /\ pc' = "abandoned"
    /\ UNCHANGED <<workflow, param_validation, consumer, step_index, context,
                   step_results, errors, active_workflows, events, calls, resolved,
                   raised, probe, other>>

Next == Anext \/ ConsumerReturn

Spec == Init /\ [][Next]_vars

(***************************************************************************)
(* Two runs of the same workflow, each with its own generator and its own  *)
(* locals.  other.shares says that both run on the same ActionModule and   *)
(* under the same workflow_id, so that self.active_workflows[workflow_id]  *)
(* is one entry for both; otherwise each run has an entry of its own.      *)
(***************************************************************************)
InitRuns ==
    /\ InitRunner
    /\ probe = NoProbe
    /\ other \in {[shares |-> b, run |-> StartRun(2)] : b \in BOOLEAN}

\* The second run's locals, with the entry of active_workflows it sees.
OtherCur ==
    IF other.shares THEN [other.run EXCEPT !.active_workflows = active_workflows]
    ELSE other.run
OtherSuspended == other.run.pc \in {"start", "after_preflight", "after_running",
                                    "after_success", "after_final"}
OtherLeaves ==
    /\ consumer = "cli"
    /\ other.run.events # <<>>
    /\ other.run.events[Len(other.run.events)].status \notin {"RUNNING", "COMPLETED"}

\* The second run's consumer asks for the next event.
AnextOther ==
    /\ OtherSuspended
    /\ ~OtherLeaves
    /\ LET r == Advance(OtherCur) IN
        /\ other' = [other EXCEPT !.run = r]
        /\ active_workflows' = IF other.shares THEN r.active_workflows
                               ELSE active_workflows
    /\ UNCHANGED <<workflow, param_validation, consumer, pc, step_index, context,
                   step_results, errors, events, calls, resolved, raised, probe>>

\* The second run's consumer returns from inside its loop.
ConsumerReturnOther ==
    /\ OtherSuspended
    /\ OtherLeaves
    /\ other' = [other EXCEPT !.run.pc = "abandoned"]
    /\ UNCHANGED <<workflow, param_validation, consumer, pc, step_index, context,
                   step_results, errors, active_workflows, events, calls, resolved,
                   raised, probe>>

NextRuns == Anext \/ ConsumerReturn \/ AnextOther \/ ConsumerReturnOther

SpecRuns == InitRuns /\ [][NextRuns]_vars

(***************************************************************************)
(* _prepare_step_parameters and _execute_step called directly, as a unit   *)
(* test calls them: on one step, with a context or an argument map.        *)
(***************************************************************************)
ParamNames == {"p", "q"}
TypeTags == {"", "str", "<class 'str'>", "List[str]", "Dict[str, Any]"}
LiteralValues == {PyNone, EmptyStr, Str("hello")}
\* The infos one parameter name can carry: infos that hold is_required, with
\* or without their own name, and infos as the planner prompt shows them,
\* with type and value only.
InfoPool(n) ==
    { ParamInfo(n, ty, val, req, ks) :
        ty \in TypeTags, val \in LiteralValues, req \in BOOLEAN,
        ks \in {InfoKeys, InfoKeys \ {"name"}} }
    \cup { ParamInfo(n, ty, Str("hello"), FALSE, {"type", "value"}) :
             ty \in {"str", "List[str]"} }
\* step.parameters: no, one or two parameters, in either order.
ParameterMaps ==
    {<<>>} \cup { <<a>> : a \in UNION {InfoPool(n) : n \in ParamNames} }
           \cup { <<a, b>> : a \in InfoPool("p"), b \in InfoPool("q") }
           \cup { <<b, a>> : a \in InfoPool("p"), b \in InfoPool("q") }
PrevOutputs == {PyNone, Str("out"), ListV("L1"), DictV("D1")}
\* The capabilities a step can name.
CapPool ==
    { Cap(l, req, rs, Str("r1")) :
        l \in {"found", "bad_agent_id", "import_error", "no_function"},
        req \in {{}, {"keyword"}},
        rs \in {"none", "Exception", "ImportError", "CancelledError"} }
ArgValues == {PyNone, EmptyStr, Str("x"), EmptyList}
\* The argument maps handed to _execute_step: each name absent or present.
RECURSIVE ArgMaps(_)
ArgMaps(names) ==
    IF names = <<>> THEN {<<>>}
    ELSE LET rest == ArgMaps(Tail(names)) IN
         rest \cup { <<[k |-> Head(names), v |-> val]>> \o m :
                       val \in ArgValues, m \in rest }
NoOutcome == [ok |-> FALSE, called |-> FALSE, args |-> <<>>, value |-> PyNone,
              error |-> "none"]
(***************************************************************************)
(* analyze_request_and_build_workflow, from the planner's decoded answer   *)
(* workflow_data on.  An entry of its lists is a record; "none" under      *)
(* step_id stands for an entry without that key.                           *)
(***************************************************************************)
\* _extract_missing_parameters: entries of step1 only, rebuilt with defaults.
RECURSIVE ExtractMissingParameters(_)
ExtractMissingParameters(entries) ==
    IF entries = <<>> THEN <<>>
    ELSE IF Head(entries).step_id # "step1"
         THEN ExtractMissingParameters(Tail(entries))
         ELSE <<[name |-> Head(entries).name, type |-> Head(entries).type,
                 description |-> "", required |-> TRUE, function_id |-> "",
                 step_id |-> "step1"]>> \o ExtractMissingParameters(Tail(entries))
\* _extract_parameter_conflicts: every entry, step_id defaulting to step1.
ExtractParameterConflicts(entries) ==
    [i \in 1..Len(entries) |->
        [parameter |-> entries[i].parameter1, function_id |-> "",
         step_id |-> IF entries[i].step_id = "none" THEN "step1" ELSE entries[i].step_id,
         reason |-> entries[i].reason]]
\* A validity that looks at the missing parameters only.
IsValidMissingOnly(missing_parameters, parameter_conflicts) == missing_parameters = <<>>
\* False if missing_parameters or parameter_conflicts else True
IsValid(missing_parameters, parameter_conflicts) ==
    ~(missing_parameters # <<>> \/ parameter_conflicts # <<>>)
BuildValidation(workflow_data) ==
    LET missing_parameters == ExtractMissingParameters(workflow_data.missing_parameters)
        parameter_conflicts == ExtractParameterConflicts(workflow_data.parameter_conflicts)
    IN [is_valid |-> IsValid(missing_parameters, parameter_conflicts),
        missing_required_parameters |-> missing_parameters,
        parameter_conflicts |-> parameter_conflicts]
\* The planner's answers: missing parameters of step1, of a later step or
\* without step_id, and conflicts.
WorkflowDataPool ==
    LET entry == { [name |-> "keyword", type |-> "string", step_id |-> sid] :
                     sid \in {"step1", "step2", "none"} }
        conflict == { [parameter1 |-> "limit", step_id |-> sid, reason |-> "too large"] :
                        sid \in {"step2", "none"} }
    IN { [missing_parameters |-> m, parameter_conflicts |-> c] :
           m \in {<<>>} \cup {<<a>> : a \in entry} \cup {<<a, b>> : a \in entry, b \in entry},
           c \in {<<>>} \cup {<<a>> : a \in conflict} }
AnalyzeProbes ==
    { [fn |-> "analyze", workflow_data |-> wd, state |-> "ready",
       validation |-> [is_valid |-> TRUE, missing_required_parameters |-> <<>>,
                       parameter_conflicts |-> <<>>]] : wd \in WorkflowDataPool }

\* The context a direct call is given.
ProbeContext(prev) ==
    [previous_step_output |-> prev, previous_step_output_type |-> "",
     step_results |-> <<>>]
\* Contexts with the same previous_step_output that differ in another field.
OtherContexts(ctx) ==
    { [ctx EXCEPT !.previous_step_output_type = "List[str]"],
      [ctx EXCEPT !.step_results = <<[k |-> "step1", v |-> CompletedResult(Str("out"))]>>] }
PrepareProbes ==
    { [fn |-> "prepare", step |-> Step("step1", ps, Cap("found", {}, "none", PyNone)),
       context |-> ProbeContext(prev), step_index |-> idx,
       parameters |-> <<>>, state |-> "ready",
       prepared |-> Return(<<>>), executed |-> NoOutcome,
       given |-> [step |-> Step("step1", ps, Cap("found", {}, "none", PyNone)),
                  context |-> ProbeContext(prev)],
       between |-> FALSE, again |-> Return(<<>>),
       other_context |-> ProbeContext(prev), other_prepared |-> Return(<<>>)] :
        ps \in ParameterMaps, prev \in PrevOutputs, idx \in {0, 1} }
ExecuteProbes ==
    { [fn |-> "execute", step |-> Step("step1", <<>>, cap),
       context |-> ProbeContext(PyNone), step_index |-> 0,
       parameters |-> m, state |-> "ready",
       prepared |-> Return(<<>>), executed |-> NoOutcome] :
        cap \in CapPool, m \in ArgMaps(<<"keyword", "records", "limit">>) }

InitFn ==
    /\ workflow = <<>>
    /\ param_validation \in {v \in ValidationPool : v.is_valid}
    /\ consumer = "drain"
    /\ pc = "start"
    /\ step_index = 0
    /\ context = [previous_step_output |-> PyNone, previous_step_output_type |-> "",
                  step_results |-> <<>>]
    /\ step_results = <<>>
    /\ errors = <<>>
    /\ active_workflows = NoRecord
    /\ events = <<>>
    /\ calls = <<>>
    /\ resolved = <<>>
    /\ raised = "none"
    /\ probe \in PrepareProbes \cup ExecuteProbes \cup AnalyzeProbes
    /\ other = NoRun

CallPrepare ==
    /\ probe.fn = "prepare"
    /\ probe.state = "ready"
    /\ probe' = [probe EXCEPT !.state = "returned",
                              !.prepared = PrepareStepParameters(probe.step, probe.context,
                                                                 probe.step_index),
                              !.step = PrepareEffect(probe.step, probe.context,
                                                     probe.step_index).step,
                              !.context = PrepareEffect(probe.step, probe.context,
                                                        probe.step_index).context]
    /\ UNCHANGED <<workflow, param_validation, consumer, pc, step_index, context,
                   step_results, errors, active_workflows, events, calls, resolved,
                   raised, other>>

CallExecute ==
    /\ probe.fn = "execute"
    /\ probe.state = "ready"
    /\ probe' = [probe EXCEPT !.state = "returned",
                              !.executed = ExecuteStep(probe.step, probe.parameters)]
    /\ UNCHANGED <<workflow, param_validation, consumer, pc, step_index, context,
                   step_results, errors, active_workflows, events, calls, resolved,
                   raised, other>>

\* Between two calls on the same arguments the resolver is called on another
\* step and another context, objects of their own.
CallPrepareBetween ==
    /\ probe.fn = "prepare"
    /\ probe.state = "returned"
    /\ \E prev \in PrevOutputs :
        LET step == Step("step2", <<Param("q", "List[str]", Str("hello"), TRUE)>>,
                         Cap("found", {}, "none", PyNone))
            res == PrepareStepParameters(step, ProbeContext(prev), 1)
        IN probe' = [probe EXCEPT !.state = "between",
                                  !.between = res.raised = "none"]
    /\ UNCHANGED <<workflow, param_validation, consumer, pc, step_index, context,
                   step_results, errors, active_workflows, events, calls, resolved,
                   raised, other>>

\* The resolver is called a second time on the step and the context of the
\* first call, as that call left them.
CallPrepareAgain ==
    /\ probe.fn = "prepare"
    /\ probe.state \in {"returned", "between"}
    /\ probe' = [probe EXCEPT !.state = "again",
                              !.again = PrepareStepParameters(probe.step, probe.context,
                                                              probe.step_index),
                              !.step = PrepareEffect(probe.step, probe.context,
                                                     probe.step_index).step,
                              !.context = PrepareEffect(probe.step, probe.context,
                                                        probe.step_index).context]
    /\ UNCHANGED <<workflow, param_validation, consumer, pc, step_index, context,
                   step_results, errors, active_workflows, events, calls, resolved,
                   raised, other>>

\* The resolver is called for a step at index > 0 with a context that differs
\* from the first call's in a field other than previous_step_output.
CallPrepareOtherContext ==
    /\ probe.fn = "prepare"
    /\ probe.state = "returned"
    /\ probe.step_index > 0
    /\ \E ctx \in OtherContexts(probe.context) :
        probe' = [probe EXCEPT !.state = "other_context",
                               !.other_context = ctx,
                               !.other_prepared =
                                   PrepareStepParameters(probe.step, ctx, probe.step_index)]
    /\ UNCHANGED <<workflow, param_validation, consumer, pc, step_index, context,
                   step_results, errors, active_workflows, events, calls, resolved,
                   raised, other>>

\* analyze_request_and_build_workflow builds its ParameterValidationResult.
CallAnalyze ==
    /\ probe.fn = "analyze"
    /\ probe.state = "ready"
    /\ probe' = [probe EXCEPT !.state = "returned",
                              !.validation = BuildValidation(probe.workflow_data)]
    /\ UNCHANGED <<workflow, param_validation, consumer, pc, step_index, context,
                   step_results, errors, active_workflows, events, calls, resolved,
                   raised, other>>

NextFn ==
    \/ CallAnalyze
    \/ CallPrepare
    \/ CallPrepareBetween
    \/ CallPrepareAgain
    \/ CallPrepareOtherContext
    \/ CallExecute

SpecFn == InitFn /\ [][NextFn]_vars

(***************************************************************************)
(* Properties                                                              *)
(***************************************************************************)
LastEvent == events[Len(events)]
TerminalStatuses == {"COMPLETED", "FAILED"}
\* The generator is over: exhausted, left by an exception, or dropped.
Ended == pc \in {"done", "raised", "abandoned"}
\* The consumer iterated until the generator itself ended.
Consumed == pc \in {"done", "raised"}
UniqueStepIds ==
    \A i, j \in 1..Len(workflow) : i # j => workflow[i].step_id # workflow[j].step_id

\* What each step does when it is reached, by the engine's own resolver and
\* invoker: the arguments it resolves to and the outcome of its capability,
\* for steps 0, 1, ... up to and including the first one whose invocation
\* does not return a value.
RECURSIVE StepOutcomes(_, _, _)
StepOutcomes(steps, i, prev) ==
    IF i >= Len(steps) THEN <<>>
    ELSE LET res == PrepareStepParameters(steps[i + 1],
                                          [previous_step_output |-> prev,
                                           previous_step_output_type |-> "",
                                           step_results |-> <<>>], i)
             args == res.value
             out == ExecuteStep(steps[i + 1], args)
             ok == res.raised = "none" /\ out.ok
         IN <<[args |-> args, ok |-> ok, value |-> out.value]>> \o
            (IF ok THEN StepOutcomes(steps, i + 1, out.value) ELSE <<>>)
Outcomes == StepOutcomes(workflow, 0, PyNone)
\* Every step resolves to arguments and its capability returns a value.
AllStepsSucceed ==
    /\ Len(Outcomes) = Len(workflow)
    /\ \A i \in 1..Len(Outcomes) : Outcomes[i].ok /\ Outcomes[i].args # <<>>
\* Step k is the first step that fails, and it fails in its capability.
FailsAt(k) ==
    /\ Len(Outcomes) = k + 1
    /\ ~Outcomes[k + 1].ok
    /\ \A i \in 1..k : Outcomes[i].args # <<>>
\* Step k is the first step whose resolution is the empty map.
EmptyResolutionAt(k) ==
    /\ Len(Outcomes) >= k + 1
    /\ Outcomes[k + 1].args = <<>>
    /\ \A i \in 1..k : Outcomes[i].args # <<>>

\* C1: when param_validation.is_valid is false, no step is ever resolved and no
\* capability function is ever called in that run, whatever the workflow holds
\* and however long the caller keeps consuming.
C1_NoStepWhenInvalid ==
    ~param_validation.is_valid => calls = <<>> /\ resolved = <<>>
\* An invalid run of a workflow with steps, consumed until the generator ended.
C1_Witness ==
    /\ ~param_validation.is_valid
    /\ consumer = "drain"
    /\ Len(workflow) >= 1
    /\ events # <<>>
    /\ Consumed

\* C2: fail-fast.  In a run of a workflow with unique step_ids whose step k is
\* the first to fail, no step after k is resolved or invoked and the final
\* ExecutionResult holds exactly k+1 step results: steps 0..k-1 COMPLETED and
\* step k FAILED.
C2_FailFast ==
    \A k \in 0..(Len(workflow) - 1) :
        (param_validation.is_valid /\ UniqueStepIds /\ FailsAt(k) /\ Consumed) =>
            /\ \A c \in 1..Len(calls) : calls[c].index <= k
            /\ \A c \in 1..Len(resolved) : resolved[c] <= k
            /\ events # <<>>
            /\ LastEvent.kind = "final"
            /\ Len(LastEvent.step_results) = k + 1
            /\ \A j \in 1..(k + 1) :
                /\ LastEvent.step_results[j].k = workflow[j].step_id
                /\ LastEvent.step_results[j].v.status =
                       IF j <= k THEN "COMPLETED" ELSE "FAILED"

\* C3: a step whose resolution is the empty argument map is treated as failed:
\* its capability is not invoked, it gets a FAILED StepResult, the error list
\* gets an entry, and no later step runs.
C3_EmptyResolutionFails ==
    \A k \in 0..(Len(workflow) - 1) :
        (param_validation.is_valid /\ UniqueStepIds /\ EmptyResolutionAt(k) /\ Consumed) =>
            /\ \A c \in 1..Len(calls) : calls[c].index < k
            /\ \A c \in 1..Len(resolved) : resolved[c] <= k
            /\ HasKey(step_results, workflow[k + 1].step_id)
            /\ \A j \in 1..Len(step_results) :
                   step_results[j].k = workflow[k + 1].step_id =>
                       step_results[j].v.status = "FAILED"
            /\ errors # <<>>

\* C4: an event with a terminal status (COMPLETED or FAILED) is the last event
\* of its run: after it no event is emitted, no step is resolved or invoked,
\* and the event sequence ends when the generator is resumed.
C4_TerminalIsLast ==
    [][ (events # <<>> /\ LastStatus \in TerminalStatuses) =>
            /\ events' = events
            /\ calls' = calls
            /\ resolved' = resolved
            /\ pc' \in {"done", "raised", "abandoned"} ]_vars
\* A terminal event was emitted and the generator, resumed by its consumer, ended.
C4_Witness ==
    /\ events # <<>>
    /\ LastStatus \in TerminalStatuses
    /\ consumer = "drain"
    /\ Ended

\* C5: no error escapes execute_workflow: every run ends with a final
\* ExecutionResult of status COMPLETED or FAILED and never by raising.
C5_NeverRaises ==
    /\ pc # "raised"
    /\ pc = "done" => events # <<>> /\ LastStatus \in TerminalStatuses

\* C8: order invariant.  For a workflow of N >= 1 steps with unique step_ids
\* whose steps all succeed, the final ExecutionResult holds exactly N step
\* results, one per step, all COMPLETED, in the declared order.
C8_OrderInvariant ==
    (param_validation.is_valid /\ UniqueStepIds /\ Len(workflow) >= 1
        /\ AllStepsSucceed /\ Consumed) =>
        /\ events # <<>>
        /\ LastEvent.kind = "final"
        /\ Len(LastEvent.step_results) = Len(workflow)
        /\ \A j \in 1..Len(workflow) :
            /\ LastEvent.step_results[j].k = workflow[j].step_id
            /\ LastEvent.step_results[j].v.status = "COMPLETED"

\* The run has ended and the last event it emitted is a result with a terminal
\* status.
HasFinalResult == Ended /\ events # <<>> /\ LastStatus \in TerminalStatuses
EveryStepCompleted(f) ==
    \A i \in 1..Len(workflow) :
        \E j \in 1..Len(f.step_results) :
            /\ f.step_results[j].k = workflow[i].step_id
            /\ f.step_results[j].v.status = "COMPLETED"
SomeStepFailed(f) ==
    \E j \in 1..Len(f.step_results) : f.step_results[j].v.status = "FAILED"

\* C9 as claimed: the final ExecutionResult is COMPLETED iff its error list is
\* empty, which is iff every step ran and has a COMPLETED StepResult, and it is
\* FAILED iff some step has a FAILED StepResult.
C9_Original ==
    HasFinalResult =>
        /\ LastEvent.status = "COMPLETED" <=> LastEvent.errors = <<>>
        /\ LastEvent.errors = <<>> <=> EveryStepCompleted(LastEvent)
        /\ LastEvent.status = "FAILED" <=> SomeStepFailed(LastEvent)
\* C9 as amended: the final ExecutionResult is COMPLETED iff its error list is
\* empty, which is iff the run passed the pre-flight check and every step ran
\* and has a COMPLETED StepResult; it is FAILED iff some step has a FAILED
\* StepResult or the run was refused pre-flight.  No other terminal status occurs.
C9_StatusIffErrors ==
    HasFinalResult =>
        /\ LastEvent.status = "COMPLETED" <=> LastEvent.errors = <<>>
        /\ LastEvent.errors = <<>> <=>
               (param_validation.is_valid /\ EveryStepCompleted(LastEvent))
        /\ LastEvent.status = "FAILED" <=>
               (SomeStepFailed(LastEvent) \/ ~param_validation.is_valid)
\* A run of a workflow with steps has ended on a final result.
C9_Witness == HasFinalResult /\ Len(workflow) >= 1

\* The entries a dict of lists carries: every element of every value.
Carried(details) == UNION { {details[i].v[j] : j \in 1..Len(details[i].v)} :
                            i \in 1..Len(details) }
\* Some carried dict has the fields of the model object p, unchanged.
CarriesObject(details, p) ==
    \E d \in Carried(details) :
        /\ Keys(d) = DOMAIN p
        /\ \A i \in 1..Len(d) : d[i].v = p[d[i].k]

\* C11: every step failure is recorded in both places: a FAILED StepResult for
\* that step whose error carries error_code, message, step_id and recoverable,
\* and one entry of the error list; the final result's error list has exactly
\* one entry per FAILED StepResult, with the same step_id.
C11_FailureRecordedTwice ==
    \A k \in 0..(Len(workflow) - 1) :
        (param_validation.is_valid /\ UniqueStepIds /\ FailsAt(k) /\ Consumed) =>
            /\ events # <<>>
            /\ LastEvent.kind = "final"
            /\ \E j \in 1..Len(LastEvent.step_results) :
                LET sr == LastEvent.step_results[j] IN
                /\ sr.k = workflow[k + 1].step_id
                /\ sr.v.status = "FAILED"
                /\ {"error_code", "message", "step_id", "recoverable"}
                       \subseteq DOMAIN sr.v.error
                /\ sr.v.error.step_id = sr.k
            /\ Len(LastEvent.errors) =
                   Cardinality({j \in 1..Len(LastEvent.step_results) :
                                   LastEvent.step_results[j].v.status = "FAILED"})
            /\ \A e \in 1..Len(LastEvent.errors) :
                \E j \in 1..Len(LastEvent.step_results) :
                    /\ LastEvent.step_results[j].v.status = "FAILED"
                    /\ LastEvent.step_results[j].k = LastEvent.errors[e].step_id

\* C12: the MISSING_PARAMETERS error of a pre-flight failure carries every entry
\* of missing_required_parameters and every entry of parameter_conflicts,
\* unchanged.
C12_CarriesBothLists ==
    (~param_validation.is_valid /\ events # <<>>) =>
        LET details == events[1].errors[1].details IN
        /\ events[1].errors[1].error_code = "MISSING_PARAMETERS"
        /\ \A i \in 1..Len(param_validation.missing_required_parameters) :
               CarriesObject(details, param_validation.missing_required_parameters[i])
        /\ \A i \in 1..Len(param_validation.parameter_conflicts) :
               CarriesObject(details, param_validation.parameter_conflicts[i])
\* C12, the half the code keeps: every entry of missing_required_parameters is
\* carried.
C12_CarriesMissing ==
    (~param_validation.is_valid /\ events # <<>>) =>
        \A i \in 1..Len(param_validation.missing_required_parameters) :
            CarriesObject(events[1].errors[1].details,
                          param_validation.missing_required_parameters[i])

\* C13: the number of events a run has emitted never exceeds
\* 2 * (number of steps attempted) + 1.
C13_EventBound == Len(events) <= 2 * Len(resolved) + 1
\* A run that emitted an event and was then dropped by its consumer.
C13_Witness == Len(events) = 1 /\ pc = "abandoned"

\* C14: every step that is attempted has a RUNNING event naming it, emitted
\* before the step is resolved and invoked; every step that succeeds has a
\* success event after it and before the RUNNING event of the next step; the
\* events of different steps appear in declared step order.
C14_ProgressEvents ==
    /\ \A c \in 1..Len(resolved) :
        \E e \in 1..Len(events) :
            events[e].kind = "running" /\ events[e].step = resolved[c]
    /\ \A e1, e2 \in 1..Len(events) :
        (e1 < e2 /\ events[e1].step >= 0 /\ events[e2].step >= 0) =>
            events[e1].step <= events[e2].step
    /\ (param_validation.is_valid /\ Consumed) =>
        \A i \in 0..(Len(Outcomes) - 1) :
            \E e \in 1..Len(events) :
                /\ events[e].kind = "running" /\ events[e].step = i
                /\ Outcomes[i + 1].ok =>
                    \E e2 \in (e + 1)..Len(events) :
                        /\ events[e2].kind = "step_ok" /\ events[e2].step = i
                        /\ \A e3 \in 1..Len(events) :
                            (events[e3].kind = "running" /\ events[e3].step = i + 1)
                                => e3 > e2

\* The outputs value is a dict that holds val.
OutputsCarry(outputs, val) ==
    outputs.t = "dict" /\ \E j \in 1..Len(outputs.v) : outputs.v[j].v = val

\* C22: the final ExecutionResult carries, in its outputs, the output of every
\* step with a COMPLETED StepResult, also when the run ends FAILED.
C22_OutputsOfCompletedSteps ==
    (/\ param_validation.is_valid /\ UniqueStepIds /\ Consumed
     /\ Len(workflow) >= 1 /\ Outcomes[1].ok) =>
        /\ events # <<>>
        /\ LastEvent.kind = "final"
        /\ \A i \in 1..Len(Outcomes) :
            Outcomes[i].ok => OutputsCarry(LastEvent.outputs, Outcomes[i].value)

\* C28: whenever a step's capability call returns a value, the step is recorded
\* COMPLETED with that value as output and the next step, if any, is attempted;
\* a step is recorded FAILED only if its capability was not called or the call
\* raised, and a FAILED step leaves previous_step_output as it was.
C28_ReturnedMeansCompleted ==
    (param_validation.is_valid /\ UniqueStepIds /\ Consumed) =>
        /\ \A i \in 1..Len(Outcomes) :
            Outcomes[i].ok =>
                /\ \E j \in 1..Len(step_results) :
                    /\ step_results[j].k = workflow[i].step_id
                    /\ step_results[j].v.status = "COMPLETED"
                    /\ step_results[j].v.output = Outcomes[i].value
                /\ i < Len(workflow) => \E c \in 1..Len(resolved) : resolved[c] = i
        /\ \A j \in 1..Len(step_results) :
            step_results[j].v.status = "FAILED" =>
                /\ j <= Len(Outcomes) /\ ~Outcomes[j].ok
                /\ context.previous_step_output =
                       IF j = 1 THEN PyNone ELSE Outcomes[j - 1].value

\* The final event of the run has been emitted.
FinalEmitted == \E e \in 1..Len(events) : events[e].kind = "final"
\* An event with a terminal status has been emitted.
TerminalEmitted == \E e \in 1..Len(events) : events[e].status \in TerminalStatuses
\* C27: the record of a run in active_workflows is RUNNING from registration
\* until the final event, then holds the terminal status of the final
\* ExecutionResult together with that result; a run that is over has reached
\* COMPLETED or FAILED; neither the record nor any event is ever PAUSED or
\* CANCELLED.
C27_StatusLifecycle ==
    /\ active_workflows.status \in {"none", "RUNNING", "COMPLETED", "FAILED"}
    /\ \A e \in 1..Len(events) : events[e].status \notin {"PAUSED", "CANCELLED"}
    /\ (active_workflows.registered /\ ~TerminalEmitted) =>
        (active_workflows.status = "RUNNING" /\ ~active_workflows.has_result)
    /\ (active_workflows.registered /\ TerminalEmitted) =>
        /\ active_workflows.status = LastEvent.status
        /\ active_workflows.has_result
    /\ (Consumed /\ active_workflows.registered) =>
        active_workflows.status \in TerminalStatuses
\* C27 for the final event of the loop only, without the demand that a run
\* that is over has left RUNNING.
C27_RecordFollowsEvents ==
    /\ active_workflows.status \in {"none", "RUNNING", "COMPLETED", "FAILED"}
    /\ \A e \in 1..Len(events) : events[e].status \notin {"PAUSED", "CANCELLED"}
    /\ (active_workflows.registered /\ ~FinalEmitted) =>
        (active_workflows.status = "RUNNING" /\ ~active_workflows.has_result)
    /\ FinalEmitted =>
        /\ active_workflows.status = LastEvent.status
        /\ active_workflows.has_result

\* C29: with a caller that stops at the first event that is neither RUNNING nor
\* COMPLETED, a run started with is_valid false calls no capability and
\* registers no entry in active_workflows: the generator is never advanced past
\* the pre-flight FAILED event.
C29_CliStopsAtPreflight ==
    (consumer = "cli" /\ ~param_validation.is_valid) =>
        /\ calls = <<>>
        /\ resolved = <<>>
        /\ active_workflows = NoRecord
        /\ Len(events) <= 1
        /\ pc \in {"start", "after_preflight", "abandoned"}
\* The cli caller has left its loop at the pre-flight event of an invalid run.
C29_Witness ==
    /\ consumer = "cli" /\ ~param_validation.is_valid
    /\ pc = "abandoned"
    /\ Len(events) = 1 /\ events[1].kind = "preflight"
    /\ active_workflows = NoRecord

\* The run has passed its registration in active_workflows.
Registered(at) == at \in {"after_running", "after_success", "after_final", "done",
                          "raised"}
\* The entry of active_workflows the second run registered under.
OtherRecord == IF other.shares THEN active_workflows ELSE other.run.active_workflows
\* C23: two concurrent runs share no mutable state: once a run is registered, its
\* run record holds its own context, whatever the other run does, and when both
\* runs are over each has the events and step results it has when run alone
\* (the two runs execute the same workflow, so these are equal).
C23_RunsIsolated ==
    /\ Registered(pc) => active_workflows.owner = 1
    /\ Registered(other.run.pc) => OtherRecord.owner = 2
    /\ (Ended /\ other.run.pc \in {"done", "raised", "abandoned"}) =>
        /\ events = other.run.events
        /\ step_results = other.run.step_results
\* C23 for two runs that do not share an entry of active_workflows.
C23_IsolatedWhenNotShared ==
    ~other.shares =>
        /\ Registered(pc) => active_workflows.owner = 1
        /\ Registered(other.run.pc) => OtherRecord.owner = 2

\* C10: when param_validation.is_valid is false, the last event the run has
\* emitted is FAILED, has no step results, and has exactly one error, whose
\* error_code is MISSING_PARAMETERS.
C10_PreflightResult ==
    (~param_validation.is_valid /\ events # <<>>) =>
        /\ LastEvent.status = "FAILED"
        /\ LastEvent.step_results = <<>>
        /\ Len(LastEvent.errors) = 1
        /\ LastEvent.errors[1].error_code = "MISSING_PARAMETERS"
\* An invalid run of a two-step workflow that is over.
C10_Witness ==
    /\ ~param_validation.is_valid
    /\ Len(workflow) = 2
    /\ events # <<>>
    /\ Ended

(***************************************************************************)
(* Properties of the direct calls                                          *)
(***************************************************************************)
PrepareReturned(idx) ==
    probe.fn = "prepare" /\ probe.state = "returned" /\ probe.step_index = idx
ExecuteReturned == probe.fn = "execute" /\ probe.state = "returned"
\* The info marks its parameter as required.
MarkedRequired(info) == "is_required" \in info.keys /\ info.is_required
\* Some declared parameter is required and has an empty literal value.
SomeRequiredEmpty(params) ==
    \E i \in 1..Len(params) : MarkedRequired(params[i]) /\ ~Truthy(params[i].value)
\* The map holds val under name.
MapsTo(map, name, val) == \E j \in 1..Len(map) : map[j] = [k |-> name, v |-> val]
\* type(v).__name__
RuntimeTypeName(val) == val.t
\* The binding rule as stated: tag equal to the runtime type name, a List[...]
\* tag with a list, a Dict[...] tag with a dict.
TagMatches(info, prev_output) ==
    \/ info.type = RuntimeTypeName(prev_output)
    \/ StartsWithList(info.type) /\ prev_output.t = "list"
    \/ StartsWithDict(info.type) /\ prev_output.t = "dict"

\* C15: at step_index 0, when no required parameter has an empty literal value,
\* the returned map holds the literal value of every declared parameter,
\* required and optional alike.
C15_CopiesEveryLiteral ==
    (PrepareReturned(0) /\ ~SomeRequiredEmpty(probe.step.parameters)) =>
        /\ probe.prepared.raised = "none"
        /\ \A i \in 1..Len(probe.step.parameters) :
            MapsTo(probe.prepared.value, probe.step.parameters[i].name,
                   probe.step.parameters[i].value)
\* C15, the half the code keeps: when every info holds is_required, the map
\* holds the literal value of every required parameter and nothing else.
C15_CopiesRequired ==
    (/\ PrepareReturned(0)
     /\ ~SomeRequiredEmpty(probe.step.parameters)
     /\ \A i \in 1..Len(probe.step.parameters) :
            "is_required" \in probe.step.parameters[i].keys) =>
        /\ probe.prepared.raised = "none"
        /\ \A i \in 1..Len(probe.step.parameters) :
            probe.step.parameters[i].is_required <=>
                MapsTo(probe.prepared.value, probe.step.parameters[i].name,
                       probe.step.parameters[i].value)

\* C16: at step_index 0 the empty map is returned whenever some declared
\* parameter marked required has an empty literal value, whatever the order and
\* the values of the other parameters.
C16_EmptyOnMissingRequired ==
    (PrepareReturned(0) /\ SomeRequiredEmpty(probe.step.parameters)) =>
        probe.prepared = Return(<<>>)
\* C16 for infos that hold every key the resolver reads.
C16_EmptyWhenInfosComplete ==
    (/\ PrepareReturned(0)
     /\ SomeRequiredEmpty(probe.step.parameters)
     /\ \A i \in 1..Len(probe.step.parameters) :
            probe.step.parameters[i].keys = InfoKeys) =>
        probe.prepared = Return(<<>>)

\* C17: at step_index > 0 a parameter is bound to the previous output, unchanged,
\* exactly when its tag matches the previous output; provided at least one
\* parameter matches, every non-matching parameter keeps its literal value.
C17_BindsOnTypeMatch ==
    LET params == probe.step.parameters
        prev == probe.context.previous_step_output
    IN (PrepareReturned(1) /\ \E i \in 1..Len(params) : TagMatches(params[i], prev)) =>
        /\ probe.prepared.raised = "none"
        /\ Len(probe.prepared.value) = Len(params)
        /\ \A i \in 1..Len(params) :
            MapsTo(probe.prepared.value, params[i].name,
                   IF TagMatches(params[i], prev) THEN prev ELSE params[i].value)
\* C17 with the tag compared to str(type(prev_output)), as the code compares it.
C17_BindsOnClassString ==
    LET params == probe.step.parameters
        prev == probe.context.previous_step_output
        Binds(info) == \/ info.type = TypeStr(prev)
                       \/ StartsWithList(info.type) /\ prev.t = "list"
                       \/ StartsWithDict(info.type) /\ prev.t = "dict"
    IN (PrepareReturned(1) /\ \E i \in 1..Len(params) : Binds(params[i])) =>
        /\ probe.prepared.raised = "none"
        /\ Len(probe.prepared.value) = Len(params)
        /\ \A i \in 1..Len(params) :
            MapsTo(probe.prepared.value, params[i].name,
                   IF Binds(params[i]) THEN prev ELSE params[i].value)

\* C18: at step_index > 0 the empty map is returned when no declared parameter
\* has a tag matching the previous output, even if every parameter carries a
\* non-empty literal value.
C18_EmptyWhenNoMatch ==
    LET params == probe.step.parameters
        prev == probe.context.previous_step_output
    IN (PrepareReturned(1) /\ \A i \in 1..Len(params) : ~TagMatches(params[i], prev)) =>
        probe.prepared = Return(<<>>)
\* C18 with the tag compared to str(type(prev_output)), as the code compares it.
C18_EmptyWhenNoClassMatch ==
    LET params == probe.step.parameters
        prev == probe.context.previous_step_output
    IN (PrepareReturned(1) /\ \A i \in 1..Len(params) :
            /\ params[i].type # TypeStr(prev)
            /\ ~(StartsWithList(params[i].type) /\ prev.t = "list")
            /\ ~(StartsWithDict(params[i].type) /\ prev.t = "dict")) =>
        probe.prepared = Return(<<>>)

\* C19: the target operation is called with exactly the entries of the argument
\* map whose value is neither None nor "", each unchanged under its own name.
C19_CallsWithFilteredArgs ==
    (ExecuteReturned /\ probe.executed.called) =>
        /\ \A j \in 1..Len(probe.parameters) :
            (probe.parameters[j].v # PyNone /\ probe.parameters[j].v # EmptyStr) <=>
                MapsTo(probe.executed.args, probe.parameters[j].k, probe.parameters[j].v)
        /\ \A j \in 1..Len(probe.executed.args) :
            \E i \in 1..Len(probe.parameters) : probe.parameters[i] = probe.executed.args[j]
        /\ Cardinality(Keys(probe.executed.args)) = Len(probe.executed.args)
\* {keyword: "x", records: "", limit: None} became a call with {keyword: "x"}.
C19_Witness ==
    /\ ExecuteReturned /\ probe.executed.called
    /\ probe.parameters = << [k |-> "keyword", v |-> Str("x")],
                             [k |-> "records", v |-> EmptyStr],
                             [k |-> "limit", v |-> PyNone] >>
    /\ probe.executed.args = << [k |-> "keyword", v |-> Str("x")] >>

\* The capability module named by agent_id cannot be located.
ModuleNotLocated == probe.step.cap.lookup \in {"bad_agent_id", "import_error"}
\* The located module does not expose function_id.
FunctionNotExposed == probe.step.cap.lookup = "no_function"
C30_DependsOnPreviousOutputOnly ==
    (probe.fn = "prepare" /\ probe.state = "other_context") =>
        /\ probe.other_context.previous_step_output = probe.context.previous_step_output
        /\ probe.other_prepared = probe.prepared
\* Two contexts that differ in the recorded return type gave the same bound
\* parameters.
C30_Witness ==
    /\ probe.fn = "prepare" /\ probe.state = "other_context"
    /\ probe.other_context.previous_step_output_type # probe.context.previous_step_output_type
    /\ probe.other_prepared.value # <<>>

\* C25: every ParameterValidationResult that analyze_request_and_build_workflow
\* builds has is_valid false whenever its missing_required_parameters or its
\* parameter_conflicts is non-empty, and is_valid true when both are empty.
C25_ValidIffBothEmpty ==
    (probe.fn = "analyze" /\ probe.state = "returned") =>
        LET v == probe.validation IN
        /\ (v.missing_required_parameters # <<>> \/ v.parameter_conflicts # <<>>)
               => ~v.is_valid
        /\ (v.missing_required_parameters = <<>> /\ v.parameter_conflicts = <<>>)
               => v.is_valid
\* A result that is invalid because of a conflict alone: the planner named a
\* missing parameter of a later step only, which is dropped, and a conflict.
C25_Witness ==
    /\ probe.fn = "analyze" /\ probe.state = "returned"
    /\ probe.workflow_data.missing_parameters # <<>>
    /\ probe.validation.missing_required_parameters = <<>>
    /\ probe.validation.parameter_conflicts # <<>>
    /\ ~probe.validation.is_valid
====
